---- MODULE Spec2Model ----
(***************************************************************************)
(* Restaurants MCP server (restaurants_mcp_server/restaurants_server.py):  *)
(* process lifecycle (import-time KEY check, tool registration, main with  *)
(* its signal handlers and try/except/finally), the RapidAPI gateway       *)
(* call_rapidapi_request, and the two tools search_locations and           *)
(* get_restaurants, which turn the gateway's value into text.              *)
(*                                                                         *)
(* Python values are tagged records; Python text is a TLA+ string, so that *)
(* Len, \o and SubSeq act on its characters.                               *)
(***************************************************************************)
EXTENDS Integers, Sequences, FiniteSets, TLC

-----------------------------------------------------------------------------
(* Python / JSON values *)

None == [t |-> "null"]
PyBool(b) == [t |-> "bool", v |-> b]
PyInt(n) == [t |-> "int", v |-> n]
PyStr(s) == [t |-> "str", v |-> s]
PyList(q) == [t |-> "list", v |-> q]
PyDict(f) == [t |-> "dict", v |-> f]

EmptyDict == PyDict([k \in {} |-> None])

\* An evaluation either yields a value or raises an exception.
Ok(x) == [ok |-> TRUE, v |-> x, exc |-> ""]
Raise(e) == [ok |-> FALSE, v |-> None, exc |-> e]

\* Truthy, were the check `if KEY is None`
IsNotNone(x) == x.t # "null"

\* bool(x)
Truthy(x) ==
    CASE x.t = "null" -> FALSE
      [] x.t = "bool" -> x.v
      [] x.t = "int"  -> x.v # 0
      [] x.t = "str"  -> x.v # ""
      [] x.t = "list" -> Len(x.v) # 0
      [] x.t = "dict" -> DOMAIN x.v # {}

\* sub in s, for two str
Contains(s, sub) ==
    \E i \in 1..(Len(s) - Len(sub) + 1) : SubSeq(s, i, i + Len(sub) - 1) = sub

\* key in x, for a str key
PyIn(key, x) ==
    CASE x.t = "dict" -> Ok(key \in DOMAIN x.v)
      [] x.t = "list" -> Ok(\E i \in 1..Len(x.v) : x.v[i] = PyStr(key))
      [] x.t = "str"  -> Ok(Contains(x.v, key))
      [] OTHER        -> Raise("TypeError")

\* x[key], for a str key
PyGetItem(x, key) ==
    CASE x.t = "dict" -> IF key \in DOMAIN x.v THEN Ok(x.v[key]) ELSE Raise("KeyError")
      [] OTHER        -> Raise("TypeError")

\* str(x), as an f-string renders a value
Str(x) ==
    CASE x.t = "null" -> "None"
      [] x.t = "bool" -> IF x.v THEN "True" ELSE "False"
      [] x.t = "int"  -> ToString(x.v)
      [] x.t = "str"  -> x.v
      [] x.t = "list" -> IF Len(x.v) = 0 THEN "[]" ELSE "[...]"
      [] x.t = "dict" -> IF DOMAIN x.v = {} THEN "{}" ELSE "{...}"

\* GetStr, were the default left out: x.get(key)
GetStrNone(x, key, default) ==
    IF key \in DOMAIN x.v THEN Str(x.v[key]) ELSE "None"

\* x.get(key, default) rendered in an f-string
GetStr(x, key, default) ==
    IF key \in DOMAIN x.v THEN Str(x.v[key]) ELSE default

\* Join, were the last part left out
RECURSIVE JoinDropLast(_, _)
JoinDropLast(sep, parts) ==
    IF Len(parts) <= 1 THEN ""
    ELSE IF Len(parts) = 2 THEN parts[1]
    ELSE parts[1] \o sep \o JoinDropLast(sep, Tail(parts))

\* sep.join(parts)
RECURSIVE Join(_, _)
Join(sep, parts) ==
    IF Len(parts) = 0 THEN ""
    ELSE IF Len(parts) = 1 THEN parts[1]
    ELSE parts[1] \o sep \o Join(sep, Tail(parts))

\* Take, were the slice one too long: q[:n + 1]
TakeOneMore(q, n) == SubSeq(q, 1, IF Len(q) < n + 1 THEN Len(q) ELSE n + 1)

\* q[:n]
Take(q, n) == SubSeq(q, 1, IF Len(q) < n THEN Len(q) ELSE n)

-----------------------------------------------------------------------------
(* call_rapidapi_request *)

\* What the single GET meets: a transport failure (connection error, timeout)
\* with the exception's text, or a response with a status and a body that is
\* either the text of a JSON value or not JSON at all.
TransportFailure(cls, msg) == [kind |-> "transport", cls |-> cls, msg |-> msg, status |-> 0, decodable |-> FALSE, body |-> None]
Response(status, body) == [kind |-> "response", cls |-> "", msg |-> "", status |-> status, decodable |-> TRUE, body |-> body]
BadBody(status) == [kind |-> "response", cls |-> "", msg |-> "", status |-> status, decodable |-> FALSE, body |-> None]
NoOutcome == [kind |-> "none", cls |-> "", msg |-> "", status |-> 0, decodable |-> FALSE, body |-> None]

\* response.is_success
IsSuccess(status) == status \div 100 = 2

\* str(e) of the HTTPStatusError raised by response.raise_for_status()
StatusErrorText(status) ==
    (CASE status \div 100 = 1 -> "Informational response"
       [] status \div 100 = 3 -> "Redirect response"
       [] status \div 100 = 4 -> "Client error"
       [] OTHER               -> "Server error")
    \o " '" \o ToString(status) \o "'"

\* str(e) of the decode error raised by response.json()
DecodeErrorText == "Expecting value: line 1 column 1 (char 0)"

\* The exception classes the try block can raise; all derive from Exception.
ExceptionClasses == {"ConnectError", "ReadTimeout", "HTTPStatusError", "JSONDecodeError"}

Threw(cls, msg) == [ok |-> FALSE, v |-> None, exc |-> cls, msg |-> msg]
Gave(x) == [ok |-> TRUE, v |-> x, exc |-> "", msg |-> ""]

\* The try block: client.get, response.raise_for_status(), response.json().
GatewayTry(outcome) ==
    IF outcome.kind = "transport" THEN Threw(outcome.cls, outcome.msg)
    ELSE IF ~IsSuccess(outcome.status) THEN Threw("HTTPStatusError", StatusErrorText(outcome.status))
    ELSE IF ~outcome.decodable THEN Threw("JSONDecodeError", DecodeErrorText)
    ELSE Gave(outcome.body)

\* CaughtByExcept, were the clause `except httpx.HTTPError`
CaughtByHTTPError(cls) == cls \in {"ConnectError", "ReadTimeout", "HTTPStatusError"}

\* `except Exception as e` catches cls
CaughtByExcept(cls) == cls \in ExceptionClasses

ErrorValue(msg) == PyDict([k \in {"error"} |-> PyStr(msg)])

\* try: ... except Exception as e: return {"error": str(e)}
call_rapidapi_request(outcome) ==
    LET r == GatewayTry(outcome)
    IN  IF r.ok THEN Gave(r.v)
        ELSE IF CaughtByExcept(r.exc) THEN Gave(ErrorValue(r.msg))
        ELSE r

-----------------------------------------------------------------------------
(* The tools: what each does with the gateway's value *)

Returned(text) == [kind |-> "return", text |-> text, exc |-> ""]
Raised(e) == [kind |-> "raise", text |-> "", exc |-> e]

RestaurantLimit == 10

location_info(location) ==
    "Name: " \o GetStr(location, "localizedName", "Unknown") \o "\n"
    \o "Location Id: " \o GetStr(location, "locationId", "Unknown") \o "\n"
    \o "Coordinates: " \o GetStr(location, "latitude", "N/A") \o ", "
    \o GetStr(location, "longitude", "N/A") \o "\n"
    \o "PlaceType: " \o GetStr(location, "placeType", "Unknown") \o "\n"

restaurant_fields(restaurant) ==
    "Name: " \o GetStr(restaurant, "name", "Unknown") \o "\n"
    \o "Average Rating: " \o GetStr(restaurant, "averageRating", "Unknown") \o "\n"
    \o "User Review Count: " \o GetStr(restaurant, "userReviewCount", "Unknown") \o "\n"
    \o "Menu Url: " \o GetStr(restaurant, "menuUrl", "Unknown") \o "\n"
    \o "City Name GeoName: " \o GetStr(restaurant, "parentGeoName", "Unknown") \o "\n"
    \o "Status: " \o GetStr(restaurant, "currentOpenStatusCategory", "Unknown") \o "\n"
    \o "Premium: " \o GetStr(restaurant, "isPremium", "Unknown") \o "\n"

\* restaurant_info += f"Room: {restaurant_info}\n"
restaurant_info(restaurant) ==
    restaurant_fields(restaurant) \o "Room: " \o restaurant_fields(restaurant) \o "\n"

\* The loop over the entries: entry.get raises AttributeError on a non-dict.
AllDicts(entries) == \A i \in 1..Len(entries) : entries[i].t = "dict"

ErrorReply(prefix, result) ==
    LET e == PyGetItem(result, "error")
    IN  IF ~e.ok THEN Raised(e.exc) ELSE Returned(prefix \o Str(e.v))

SearchLocationsFormat(result) ==
    LET hasData == PyIn("data", result)
    IN  IF ~hasData.ok THEN Raised(hasData.exc)
        ELSE IF ~hasData.v THEN Returned("Unexpected response format from the API.")
        ELSE LET data == PyGetItem(result, "data")
             IN  IF ~data.ok THEN Raised(data.exc)
                 ELSE IF data.v.t # "list" THEN Returned("Unexpected response format from the API.")
                 ELSE IF ~AllDicts(data.v.v) THEN Raised("AttributeError")
                 ELSE LET results == [i \in 1..Len(data.v.v) |-> location_info(data.v.v[i])]
                      IN  IF Len(results) # 0 THEN Returned(Join("\n---\n", results))
                          ELSE Returned("No locations found matching your query.")

\* search_locations, were the test `if result.get("error")`
search_locations_truthy(result) ==
    IF result.t # "dict" THEN Raised("AttributeError")
    ELSE IF "error" \in DOMAIN result.v /\ Truthy(result.v["error"])
         THEN ErrorReply("Error fetching locations: ", result)
         ELSE SearchLocationsFormat(result)

search_locations(result) ==
    LET hasError == PyIn("error", result)
    IN  IF ~hasError.ok THEN Raised(hasError.exc)
        ELSE IF hasError.v THEN ErrorReply("Error fetching locations: ", result)
        ELSE SearchLocationsFormat(result)

\* GetRestaurantsList, were the join returned as it is
GetRestaurantsListJoined(inner) ==
    IF inner.t # "list" THEN Returned("Unexpected response format from the API.")
    ELSE LET restaurants == Take(inner.v, RestaurantLimit)
         IN  IF ~AllDicts(restaurants) THEN Raised("AttributeError")
             ELSE Returned(Join("\n---\n", [i \in 1..Len(restaurants) |-> restaurant_info(restaurants[i])]))

GetRestaurantsList(inner) ==
    IF inner.t # "list" THEN Returned("Unexpected response format from the API.")
    ELSE LET restaurants == Take(inner.v, RestaurantLimit)
         IN  IF ~AllDicts(restaurants) THEN Raised("AttributeError")
             ELSE LET results == [i \in 1..Len(restaurants) |-> restaurant_info(restaurants[i])]
                  IN  IF Len(results) # 0 THEN Returned(Join("\n---\n", results))
                      ELSE Returned("No Restaurants found for this location and dates.")

GetRestaurantsFormat(result) ==
    LET hasData == PyIn("data", result)
    IN  IF ~hasData.ok THEN Raised(hasData.exc)
        ELSE IF ~hasData.v THEN Returned("Unexpected response format from the API.")
        ELSE LET data == PyGetItem(result, "data")
             IN  IF ~data.ok THEN Raised(data.exc)
                 ELSE LET hasInner == PyIn("data", data.v)
                      IN  IF ~hasInner.ok THEN Raised(hasInner.exc)
                          ELSE IF ~hasInner.v THEN Returned("Unexpected response format from the API.")
                          ELSE LET inner == PyGetItem(data.v, "data")
                               IN  IF ~inner.ok THEN Raised(inner.exc)
                                   ELSE GetRestaurantsList(inner.v)

get_restaurants(result) ==
    LET hasError == PyIn("error", result)
    IN  IF ~hasError.ok THEN Raised(hasError.exc)
        ELSE IF hasError.v THEN ErrorReply("Error fetching restaurants: ", result)
        ELSE GetRestaurantsFormat(result)

-----------------------------------------------------------------------------
(* Bounds and input domains *)

MaxInv == 2
MaxSignals == 2

Invocations == 1..MaxInv
Signals == {"SIGINT", "SIGTERM"}
ToolNames == {"search_locations", "get_restaurants"}

\* os.getenv("KEY"): unset, set to the empty string, set to a key
KeyValues == {None, PyStr(""), PyStr("k")}
\* sys.argv[1:]
ArgvValues == {<<>>, <<"-h">>, <<"--port">>}

Arguments(tool) == IF tool = "search_locations" THEN {"Paris"} ELSE {"123"}

-----------------------------------------------------------------------------
(* State *)

VARIABLES
    KEY,            \* os.getenv("KEY")
    argv,           \* the command line
    pc,             \* where the main thread is
    handlers,       \* signal -> "default" or "handle_shutdown"
    tools,          \* the tools registered with mcp
    pending,        \* how main's try statement leaves: "none", "return0", "return1", "sysexit0"
    loopOutcome,    \* how mcp.run ended: "none", "graceful", "raised", "signal"
    shutdownLogged, \* the finally block's log line has run
    termination,    \* "none", "exit" (with exitCode) or "signal" (killed)
    exitCode,
    signals,        \* the signals received so far, each with the place it met
    inv             \* the tool invocations

vars == <<KEY, argv, pc, handlers, tools, pending, loopOutcome, shutdownLogged,
          termination, exitCode, signals, inv>>

procVars == <<KEY, argv, pc, handlers, tools, pending, loopOutcome, shutdownLogged,
              termination, exitCode, signals>>

IdleInvocation ==
    [pc |-> "idle", tool |-> "", arg |-> "", requests |-> <<>>, outcome |-> NoOutcome,
     gateway |-> Gave(None), result |-> Returned("")]

Init ==
    /\ KEY \in KeyValues
    /\ argv \in ArgvValues
    /\ pc = "load"
    /\ handlers = [s \in Signals |-> "default"]
    /\ tools = {}
    /\ pending = "none"
    /\ loopOutcome = "none"
    /\ shutdownLogged = FALSE
    /\ termination = "none"
    /\ exitCode = 0
    /\ signals = <<>>
    /\ inv = [i \in Invocations |-> IdleInvocation]

-----------------------------------------------------------------------------
(* Process lifecycle *)

Exit(code) ==
    /\ termination' = "exit"
    /\ exitCode' = code
    /\ pc' = "exited"

\* if not KEY: logger.error(...); sys.exit(1)
CheckKey ==
    /\ pc = "load"
    /\ IF ~Truthy(KEY)
       THEN Exit(1)
       ELSE pc' = "tool1" /\ UNCHANGED <<termination, exitCode>>
    /\ UNCHANGED <<KEY, argv, handlers, tools, pending, loopOutcome, shutdownLogged, signals, inv>>

\* @mcp.tool() async def search_locations
RegisterSearchLocations ==
    /\ pc = "tool1"
    /\ tools' = tools \cup {"search_locations"}
    /\ pc' = "tool2"
    /\ UNCHANGED <<KEY, argv, handlers, pending, loopOutcome, shutdownLogged,
                   termination, exitCode, signals, inv>>

\* @mcp.tool() async def get_restaurants
RegisterGetRestaurants ==
    /\ pc = "tool2"
    /\ tools' = tools \cup {"get_restaurants"}
    /\ pc' = "main"
    /\ UNCHANGED <<KEY, argv, handlers, pending, loopOutcome, shutdownLogged,
                   termination, exitCode, signals, inv>>

\* main: parser.parse_args() prints help and exits 0 on -h, exits 2 on an
\* argument it does not know
ParseArgs ==
    /\ pc = "main"
    /\ IF argv = <<>>
       THEN pc' = "sigint" /\ UNCHANGED <<termination, exitCode>>
       ELSE IF argv = <<"-h">> THEN Exit(0) ELSE Exit(2)
    /\ UNCHANGED <<KEY, argv, handlers, tools, pending, loopOutcome, shutdownLogged, signals, inv>>

\* signal.signal(signal.SIGINT, handle_shutdown)
RegisterSIGINT ==
    /\ pc = "sigint"
    /\ handlers' = [handlers EXCEPT !["SIGINT"] = "handle_shutdown"]
    /\ pc' = "sigterm"
    /\ UNCHANGED <<KEY, argv, tools, pending, loopOutcome, shutdownLogged,
                   termination, exitCode, signals, inv>>

\* signal.signal(signal.SIGTERM, handle_shutdown); the try statement is entered
RegisterSIGTERM ==
    /\ pc = "sigterm"
    /\ handlers' = [handlers EXCEPT !["SIGTERM"] = "handle_shutdown"]
    /\ pc' = "try"
    /\ UNCHANGED <<KEY, argv, tools, pending, loopOutcome, shutdownLogged,
                   termination, exitCode, signals, inv>>

\* logger.info("Starting ..."); mcp.run(transport='stdio') starts serving
StartServing ==
    /\ pc = "try"
    /\ pc' = "serving"
    /\ UNCHANGED <<KEY, argv, handlers, tools, pending, loopOutcome, shutdownLogged,
                   termination, exitCode, signals, inv>>

\* mcp.run returns (the stream closed): return 0
ServingEnds ==
    /\ pc = "serving"
    /\ loopOutcome' = "graceful"
    /\ pending' = "return0"
    /\ pc' = "finally"
    /\ UNCHANGED <<KEY, argv, handlers, tools, shutdownLogged, termination, exitCode, signals, inv>>

\* mcp.run raises an Exception: the except clause is entered
ServingRaises ==
    /\ pc = "serving"
    /\ loopOutcome' = "raised"
    /\ pc' = "except"
    /\ UNCHANGED <<KEY, argv, handlers, tools, pending, shutdownLogged, termination, exitCode, signals, inv>>

\* except Exception as e: logger.error(...); return 1
ExceptReturns ==
    /\ pc = "except"
    /\ pending' = "return1"
    /\ pc' = "finally"
    /\ UNCHANGED <<KEY, argv, handlers, tools, loopOutcome, shutdownLogged, termination, exitCode, signals, inv>>

\* finally: logger.info("Restaurants MCP Server shutting down...")
Finally ==
    /\ pc = "finally"
    /\ shutdownLogged' = TRUE
    /\ pc' = "leave"
    /\ UNCHANGED <<KEY, argv, handlers, tools, pending, loopOutcome, termination, exitCode, signals, inv>>

ExitCodeOf(how) == IF how = "return1" THEN 1 ELSE 0

\* the try statement is left: sys.exit(main()), or the SystemExit goes on
Leave ==
    /\ pc = "leave"
    /\ Exit(ExitCodeOf(pending))
    /\ UNCHANGED <<KEY, argv, handlers, tools, pending, loopOutcome, shutdownLogged, signals, inv>>

\* The places of main that lie inside the try statement's try or except
\* clause: an exception raised there runs the finally clause.
InsideTry(place) == place \in {"try", "serving", "except"}

\* HandleShutdown, were the clause `except BaseException`, which catches
\* SystemExit
HandleShutdownCaught ==
    IF pc \in {"try", "serving"}
    THEN /\ pc' = "except"
         /\ loopOutcome' = IF pc = "serving" THEN "signal" ELSE loopOutcome
         /\ UNCHANGED <<pending, termination, exitCode>>
    ELSE IF pc = "except"
    THEN /\ pending' = "sysexit0"
         /\ pc' = "finally"
         /\ UNCHANGED <<loopOutcome, termination, exitCode>>
    ELSE /\ Exit(0)
         /\ UNCHANGED <<pending, loopOutcome>>

\* handle_shutdown: sys.exit(0), which raises SystemExit(0) where the main
\* thread is. `except Exception` does not catch it.
HandleShutdown ==
    IF InsideTry(pc)
    THEN /\ pending' = "sysexit0"
         /\ pc' = "finally"
         /\ loopOutcome' = IF pc = "serving" THEN "signal" ELSE loopOutcome
         /\ UNCHANGED <<termination, exitCode>>
    ELSE /\ Exit(0)
         /\ UNCHANGED <<pending, loopOutcome>>

\* The signal's default disposition ends the process: SIGTERM kills it,
\* SIGINT raises KeyboardInterrupt outside any try statement.
DefaultDisposition ==
    /\ termination' = "signal"
    /\ pc' = "exited"
    /\ UNCHANGED <<exitCode, pending, loopOutcome>>

\* A SIGINT or SIGTERM reaches the process.
Signal(s) ==
    /\ termination = "none"
    /\ Len(signals) < MaxSignals
    /\ signals' = Append(signals, [sig |-> s, at |-> pc, disposition |-> handlers[s]])
    /\ IF handlers[s] = "handle_shutdown" THEN HandleShutdown ELSE DefaultDisposition
    /\ UNCHANGED <<KEY, argv, handlers, tools, shutdownLogged, inv>>

-----------------------------------------------------------------------------
(* Tool invocations *)

Endpoint(tool) ==
    IF tool = "search_locations" THEN "/api/v1/restaurant/searchLocation"
    ELSE "/api/v1/restaurant/searchRestaurants"

Params(tool, arg) ==
    IF tool = "search_locations" THEN [k \in {"query"} |-> arg]
    ELSE [k \in {"locationId"} |-> arg]

\* The tool's code after `result = await call_rapidapi_request(endpoint, params)`
ToolResult(tool, gw) ==
    IF ~gw.ok THEN Raised(gw.exc)
    ELSE IF tool = "search_locations" THEN search_locations(gw.v)
    ELSE get_restaurants(gw.v)

\* A tool is called: it runs up to `await client.get(...)`, the one request
\* of the call.
StartInvocation(r, tool, arg) ==
    [r EXCEPT !.pc = "awaiting", !.tool = tool, !.arg = arg,
              !.requests = Append(r.requests, [endpoint |-> Endpoint(tool), params |-> Params(tool, arg)])]

\* FinishInvocation, were a failed request sent once more
FinishInvocationRetry(r, o) ==
    LET gw == call_rapidapi_request(o)
        res == ToolResult(r.tool, gw)
    IN  IF ~GatewayTry(o).ok /\ Len(r.requests) < 2
        THEN [r EXCEPT !.requests = Append(r.requests, r.requests[1])]
        ELSE [r EXCEPT !.pc = IF res.kind = "return" THEN "returned" ELSE "raised",
                       !.outcome = o, !.gateway = gw, !.result = res]

\* The request ends with outcome o: the gateway returns and the tool finishes.
FinishInvocation(r, o) ==
    LET gw == call_rapidapi_request(o)
        res == ToolResult(r.tool, gw)
    IN  [r EXCEPT !.pc = IF res.kind = "return" THEN "returned" ELSE "raised",
                  !.outcome = o, !.gateway = gw, !.result = res]

Invoke(i, tool, arg) ==
    /\ pc = "serving"
    /\ tool \in tools
    /\ inv[i].pc = "idle"
    /\ inv' = [inv EXCEPT ![i] = StartInvocation(inv[i], tool, arg)]
    /\ UNCHANGED procVars

Complete(i, o) ==
    /\ pc = "serving"
    /\ inv[i].pc = "awaiting"
    /\ inv' = [inv EXCEPT ![i] = FinishInvocation(inv[i], o)]
    /\ UNCHANGED procVars

-----------------------------------------------------------------------------
(* The server from its start, with the upstream answering from a small set *)

Statuses == {200, 301, 404, 500}

Bodies ==
    { None,
      PyDict([k \in {"data"} |-> PyList(<<>>)]),
      PyDict([k \in {"data"} |-> PyDict([j \in {"data"} |-> PyList(<<>>)])]),
      PyDict([k \in {"error"} |-> PyStr("quota")]) }

Outcomes ==
    {TransportFailure("ConnectError", "All connection attempts failed"),
     TransportFailure("ReadTimeout", "")}
    \cup {BadBody(200), BadBody(204)}
    \cup {Response(st, None) : st \in Statuses \ {200}}
    \cup {Response(200, b) : b \in Bodies}

Lifecycle ==
    \/ CheckKey
    \/ RegisterSearchLocations
    \/ RegisterGetRestaurants
    \/ ParseArgs
    \/ RegisterSIGINT
    \/ RegisterSIGTERM
    \/ StartServing
    \/ ServingEnds
    \/ ServingRaises
    \/ ExceptReturns
    \/ Finally
    \/ Leave
    \/ \E s \in Signals : Signal(s)

Next ==
    \/ Lifecycle
    \/ \E i \in Invocations, tool \in ToolNames : \E arg \in Arguments(tool) : Invoke(i, tool, arg)
    \/ \E i \in Invocations, o \in Outcomes : Complete(i, o)

Spec == Init /\ [][Next]_vars

-----------------------------------------------------------------------------
(* The tools applied to the values the upstream can send, on a server that  *)
(* is serving                                                               *)

MaxLocations == 3
MaxRestaurants == 12

SeqsUpTo(S, n) == UNION {[1..k -> S] : k \in 0..n}

\* The dict with the fields `present` of the dict `full`
Restrict(full, present) == PyDict([k \in present |-> full[k]])

LocationFields == {"localizedName", "locationId", "latitude", "longitude", "placeType"}

Paris ==
    [k \in LocationFields |->
        CASE k = "localizedName" -> PyStr("Paris")
          [] k = "locationId"    -> PyInt(187147)
          [] k = "latitude"      -> PyInt(48)
          [] k = "longitude"     -> PyInt(2)
          [] k = "placeType"     -> PyStr("CITY")]

Lyon ==
    [k \in LocationFields |->
        CASE k = "localizedName" -> PyStr("Lyon")
          [] k = "locationId"    -> PyStr("g187265")
          [] k = "latitude"      -> PyInt(45)
          [] k = "longitude"     -> None
          [] k = "placeType"     -> PyBool(FALSE)]

LocationPool ==
    {Restrict(Paris, LocationFields), Restrict(Lyon, LocationFields \ {"longitude"}), EmptyDict}

LocationLists ==
    SeqsUpTo(LocationPool, MaxLocations)
    \cup {<<Restrict(Paris, present)>> : present \in SUBSET LocationFields}
    \cup {<<Restrict(Lyon, LocationFields)>>, <<PyInt(7)>>, <<Restrict(Paris, LocationFields), None>>}

RestaurantFields ==
    {"name", "averageRating", "userReviewCount", "menuUrl", "parentGeoName",
     "currentOpenStatusCategory", "isPremium"}

Bistro ==
    [k \in RestaurantFields |->
        CASE k = "name"                      -> PyStr("Bistro")
          [] k = "averageRating"             -> PyInt(4)
          [] k = "userReviewCount"           -> PyInt(120)
          [] k = "menuUrl"                   -> PyStr("http://b/menu")
          [] k = "parentGeoName"             -> PyStr("Paris")
          [] k = "currentOpenStatusCategory" -> PyStr("OPEN")
          [] k = "isPremium"                 -> PyBool(TRUE)]

Zinc ==
    [k \in RestaurantFields |->
        CASE k = "name"                      -> PyStr("Zinc")
          [] k = "averageRating"             -> None
          [] k = "userReviewCount"           -> PyInt(0)
          [] k = "menuUrl"                   -> PyStr("")
          [] k = "parentGeoName"             -> PyStr("Lyon")
          [] k = "currentOpenStatusCategory" -> PyStr("CLOSED")
          [] k = "isPremium"                 -> PyBool(FALSE)]

RestaurantPool == {Restrict(Bistro, RestaurantFields), Restrict(Zinc, {"name", "averageRating"})}

\* The lists of m entries, all the second restaurant but for the first one
\* at place p (nowhere when p = 0)
MarkedLists(n) ==
    {[k \in 1..m |-> IF k = p THEN Restrict(Bistro, RestaurantFields)
                     ELSE Restrict(Zinc, {"name", "averageRating"})] :
        m \in 0..n, p \in 0..n}

RestaurantLists ==
    SeqsUpTo(RestaurantPool, MaxLocations)
    \cup MarkedLists(MaxRestaurants)
    \cup {<<Restrict(Bistro, present)>> : present \in SUBSET RestaurantFields}
    \cup {<<Restrict(Zinc, RestaurantFields)>>, <<EmptyDict>>, <<PyStr("data")>>,
          <<Restrict(Bistro, RestaurantFields), PyInt(7)>>}

Scalars == {None, PyInt(5), PyBool(TRUE), PyStr("ok"), PyStr("data"), PyStr("an error")}

Wrap(key, values) == {PyDict([k \in {key} |-> x]) : x \in values}

\* The object b with "error": e added
WithError(b, e) ==
    PyDict([k \in DOMAIN b.v \cup {"error"} |-> IF k = "error" THEN e ELSE b.v[k]])

\* Objects that carry both an `error` key and a list of entries
MarkedBodies ==
    {WithError(b, e) :
        b \in Wrap("data", {PyList(q) : q \in SeqsUpTo(LocationPool, 1)})
              \cup Wrap("data", Wrap("data", {PyList(q) : q \in SeqsUpTo(RestaurantPool, 1)})),
        e \in {None, PyStr("partial")}}

FormatBodies ==
    Scalars
    \cup {PyList(<<>>), PyList(<<PyStr("error")>>), PyList(<<PyStr("data")>>), EmptyDict}
    \cup Wrap("error", {PyStr("quota"), PyInt(429)})
    \cup Wrap("message", {PyStr("ok")})
    \cup Wrap("data", Scalars \cup {EmptyDict})
    \cup Wrap("data", {PyList(q) : q \in LocationLists})
    \cup Wrap("data", Wrap("data", Scalars \cup {EmptyDict}))
    \cup Wrap("data", Wrap("data", {PyList(q) : q \in RestaurantLists}))
    \cup MarkedBodies

FormatOutcomes == {Response(200, b) : b \in FormatBodies}

InitFormat ==
    /\ KEY = PyStr("k")
    /\ argv = <<>>
    /\ pc = "serving"
    /\ handlers = [s \in Signals |-> "handle_shutdown"]
    /\ tools = ToolNames
    /\ pending = "none"
    /\ loopOutcome = "none"
    /\ shutdownLogged = FALSE
    /\ termination = "none"
    /\ exitCode = 0
    /\ signals = <<>>
    /\ inv = [i \in Invocations |-> IdleInvocation]

NextFormat ==
    \/ \E tool \in ToolNames : \E arg \in Arguments(tool) : Invoke(1, tool, arg)
    \/ \E o \in FormatOutcomes : Complete(1, o)

FormatSpec == InitFormat /\ [][NextFormat]_vars

-----------------------------------------------------------------------------
(* Properties of the gateway and of the invocations, under Spec *)

Finished(i) == inv[i].pc \in {"returned", "raised"}

\* The GET got a 2xx response whose body is the text of a JSON value.
Succeeded(o) == o.kind = "response" /\ o.status \in 200..299 /\ o.decodable

\* x is the mapping {"error": <a str>}
IsErrorValue(x) ==
    /\ x.t = "dict"
    /\ DOMAIN x.v = {"error"}
    /\ x.v["error"].t = "str"

\* C1: call_rapidapi_request never raises to its caller; whatever the single
\* GET meets (transport failure, timeout, non-2xx status, a body that is not
\* JSON) it returns {"error": <message>}, and it returns the decoded body
\* exactly when the status is 2xx and the body decodes.
C1_GatewayNeverRaises ==
    \A i \in Invocations :
        Finished(i) =>
            LET o == inv[i].outcome
                gw == inv[i].gateway
            IN  /\ gw.ok
                /\ IF Succeeded(o)
                   THEN gw.v = o.body
                   ELSE /\ IsErrorValue(gw.v)
                        /\ o.kind = "transport" => gw.v.v["error"].v = o.msg

\* Every kind of outcome has been through the gateway.
C1_Witness ==
    /\ Finished(1) /\ inv[1].outcome.kind = "response" /\ inv[1].outcome.status = 200
    /\ ~inv[1].outcome.decodable
    /\ Finished(2) /\ inv[2].outcome.kind = "response" /\ inv[2].outcome.status = 301

ErrorPhrase(tool) ==
    IF tool = "search_locations" THEN "Error fetching locations: "
    ELSE "Error fetching restaurants: "

\* C3: when the gateway call of a tool ends in a gateway-level error with
\* message m, the tool returns (does not raise) the string made of its fixed
\* error phrase followed by m.
C3_ErrorString ==
    \A i \in Invocations :
        (Finished(i) /\ ~Succeeded(inv[i].outcome)) =>
            /\ inv[i].pc = "returned"
            /\ inv[i].result.kind = "return"
            /\ inv[i].gateway.ok
            /\ IsErrorValue(inv[i].gateway.v)
            /\ inv[i].result.text = ErrorPhrase(inv[i].tool) \o inv[i].gateway.v.v["error"].v
            /\ inv[i].outcome.kind = "transport" =>
                   inv[i].result.text = ErrorPhrase(inv[i].tool) \o inv[i].outcome.msg

\* Both tools have answered a failed request, one of them a timeout whose
\* message is empty.
C3_Witness ==
    /\ inv[1].pc = "returned" /\ inv[1].tool = "search_locations"
    /\ inv[1].outcome.kind = "transport" /\ inv[1].outcome.msg = ""
    /\ inv[1].result.text = "Error fetching locations: "
    /\ inv[2].pc = "returned" /\ inv[2].tool = "get_restaurants"
    /\ inv[2].outcome.kind = "response" /\ inv[2].outcome.status = 404

InvocationShape(i) ==
    /\ Len(inv[i].requests) <= 1
    /\ inv[i].pc = "idle" => inv[i].requests = <<>>
    /\ inv[i].pc = "awaiting" =>
           /\ Len(inv[i].requests) = 1
           /\ inv[i].outcome = NoOutcome
           /\ inv[i].result = IdleInvocation.result
    /\ Finished(i) =>
           /\ Len(inv[i].requests) = 1
           /\ inv[i].outcome # NoOutcome
           /\ inv[i].requests[1].endpoint = Endpoint(inv[i].tool)

\* An invocation that has finished stays as it is: nothing is sent again.
InvocationFinal(i) == Finished(i) => inv'[i] = inv[i]

\* A step of one invocation leaves the others alone.
InvocationsApart ==
    \A i, j \in Invocations : (i # j /\ inv'[i] # inv[i]) => inv'[j] = inv[j]

\* C10: every tool invocation issues exactly one GET, has its result only
\* after that request has ended, and never sends again after a failure; each
\* invocation on its own when several overlap.
C10_OneRequest ==
    /\ [](\A i \in Invocations : InvocationShape(i))
    /\ [][(\A i \in Invocations : InvocationFinal(i)) /\ InvocationsApart]_vars

\* One invocation has failed and returned while the other still waits.
C10_Witness ==
    /\ inv[1].pc = "returned" /\ ~Succeeded(inv[1].outcome) /\ Len(inv[1].requests) = 1
    /\ inv[2].pc = "awaiting"

-----------------------------------------------------------------------------
(* Properties of the process lifecycle, under Spec *)

\* KEY is set to a non-empty string.
KeyConfigured == KEY.t = "str" /\ Len(KEY.v) > 0

Terminated == termination # "none"
ExitedWith(code) == termination = "exit" /\ exitCode = code

\* C8: without KEY the process ends at startup with a non-zero status, before
\* a tool is registered or serving starts: no invocation, no HTTP request.
C8_NoKeyNoService ==
    /\ [](~KeyConfigured =>
            /\ tools = {}
            /\ pc \in {"load", "exited"}
            /\ ~ExitedWith(0)
            /\ \A i \in Invocations : inv[i] = IdleInvocation)
    /\ [][(~KeyConfigured /\ pc = "load") =>
            (pc' = "exited" /\ (termination' = "signal" \/ (termination' = "exit" /\ exitCode' = 1)))]_vars

\* The empty key has made the process exit with status 1.
C8_Witness == KEY = PyStr("") /\ ExitedWith(1) /\ signals = <<>> /\ tools = {}

MainPlaces == {"main", "sigint", "sigterm", "try", "serving", "except", "finally", "leave"}

SignalAt(places) == \E k \in 1..Len(signals) : signals[k].at \in places

\* C9 as stated: status 0 after a graceful end of the serving loop or a
\* signal received while main runs, status 1 after the serving loop raised,
\* and the finally block's shutdown step has run in each of these cases.
C9_Original ==
    (Terminated /\ KeyConfigured) =>
        /\ (loopOutcome = "graceful" \/ SignalAt(MainPlaces)) => ExitedWith(0)
        /\ loopOutcome = "raised" => ExitedWith(1)
        /\ (loopOutcome \in {"graceful", "raised"} \/ SignalAt(MainPlaces)) => shutdownLogged

\* C9 (amended): status 0 after a graceful end of the serving loop or a
\* signal received inside main's try statement, status 1 after the serving
\* loop raised with no signal received afterwards; the finally block's
\* shutdown step has run in each of these cases unless a signal arrived as
\* the finally block started.
C9_ExitStatus ==
    (Terminated /\ KeyConfigured) =>
        /\ (loopOutcome = "graceful" \/ SignalAt({"try", "serving", "except"})) => ExitedWith(0)
        /\ (loopOutcome = "raised" /\ signals = <<>>) => ExitedWith(1)
        /\ ((loopOutcome \in {"graceful", "raised"} \/ SignalAt({"try", "serving", "except"}))
              /\ ~SignalAt({"finally"})) => shutdownLogged

\* A signal met the serving loop and the process exited with 0 after the
\* finally block.
C9_Witness ==
    /\ ExitedWith(0) /\ shutdownLogged /\ loopOutcome = "signal"
    /\ Len(signals) = 1 /\ signals[1].at = "serving"

-----------------------------------------------------------------------------
(* Properties of the tools' text, under FormatSpec *)

\* The places, in ascending order and not overlapping, where a separator of
\* the given width starts; hits are all the places where one is found.
RECURSIVE Cuts(_, _, _)
Cuts(hits, from, width) ==
    LET usable == {i \in hits : i >= from}
    IN  IF usable = {} THEN <<>>
        ELSE LET first == CHOOSE i \in usable : \A j \in usable : i <= j
             IN  <<first>> \o Cuts(usable, first + width, width)

\* The pieces of text between the occurrences of sep, read left to right.
SplitOn(text, sep) ==
    LET hits == {i \in 1..(Len(text) - Len(sep) + 1) : SubSeq(text, i, i + Len(sep) - 1) = sep}
        cuts == Cuts(hits, 1, Len(sep))
        n == Len(cuts)
    IN  [k \in 1..(n + 1) |->
            SubSeq(text,
                   IF k = 1 THEN 1 ELSE cuts[k - 1] + Len(sep),
                   IF k = n + 1 THEN Len(text) ELSE cuts[k] - 1)]

StartsWith(text, prefix) ==
    Len(text) >= Len(prefix) /\ SubSeq(text, 1, Len(prefix)) = prefix

EndsWith(text, suffix) ==
    Len(text) >= Len(suffix) /\ SubSeq(text, Len(text) - Len(suffix) + 1, Len(text)) = suffix

Separator == "\n---\n"
UnexpectedFormat == "Unexpected response format from the API."

HasKey(x, key) == x.t = "dict" /\ key \in DOMAIN x.v

\* The decoded value has the shape the tool expects.
ExpectedShape(tool, x) ==
    IF tool = "search_locations"
    THEN HasKey(x, "data") /\ x.v["data"].t = "list"
    ELSE HasKey(x, "data") /\ HasKey(x.v["data"], "data") /\ x.v["data"].v["data"].t = "list"

\* The list of entries of a value of the expected shape.
Entries(tool, x) ==
    IF tool = "search_locations" THEN x.v["data"].v ELSE x.v["data"].v["data"].v

EntriesOf(i) == Entries(inv[i].tool, inv[i].outcome.body)

\* The invocation has finished on a decoded value of the expected shape whose
\* entries are all objects.
HasList(i) ==
    /\ Finished(i)
    /\ Succeeded(inv[i].outcome)
    /\ ExpectedShape(inv[i].tool, inv[i].outcome.body)
    /\ \A k \in 1..Len(EntriesOf(i)) : EntriesOf(i)[k].t = "dict"

\* The same, the value carrying no `error` key.
Listed(i) == HasList(i) /\ ~HasKey(inv[i].outcome.body, "error")

\* The blocks of the text an invocation returned.
BlocksOf(i) == SplitOn(inv[i].result.text, Separator)

NameKey(tool) == IF tool = "search_locations" THEN "localizedName" ELSE "name"

\* The first line of the block of an entry.
NameLine(tool, entry) ==
    "Name: " \o (IF NameKey(tool) \in DOMAIN entry.v THEN entry.v[NameKey(tool)].v ELSE "Unknown") \o "\n"

\* C2: on a decoded value that has not the expected shape, whatever the value
\* (object, array or scalar, anything under `data`), the tool returns exactly
\* the unexpected-format sentence and raises nothing.
C2_UnexpectedFormat ==
    \A i \in Invocations :
        (Finished(i) /\ Succeeded(inv[i].outcome)
            /\ ~ExpectedShape(inv[i].tool, inv[i].outcome.body)) =>
                /\ inv[i].result.kind = "return"
                /\ inv[i].result.text = UnexpectedFormat

\* The text returned is one block per entry, in the entries' order, joined by
\* "\n---\n", block k being the four lines of entry k.
LocationBlocks(i) ==
    /\ inv[i].result.kind = "return"
    /\ LET blocks == BlocksOf(i)
       IN  /\ Len(blocks) = Len(EntriesOf(i))
           /\ \A k \in 1..Len(EntriesOf(i)) :
                  /\ StartsWith(blocks[k], NameLine(inv[i].tool, EntriesOf(i)[k]) \o "Location Id: ")
                  /\ Len(SplitOn(blocks[k], "\n")) = 5
                  /\ EndsWith(blocks[k], "\n")

\* C4 as stated: search_locations on any gateway result whose `data` is a list
\* of N >= 1 entries returns N blocks joined by "\n---\n", in order.
C4_Original ==
    \A i \in Invocations :
        (HasList(i) /\ inv[i].tool = "search_locations" /\ Len(EntriesOf(i)) >= 1) =>
            LocationBlocks(i)

\* C4 (amended): search_locations on a gateway result without an `error` key
\* whose `data` is a list of N >= 1 entries returns N blocks joined by
\* "\n---\n", block k being that of entry k.
C4_LocationBlocks ==
    \A i \in Invocations :
        (Listed(i) /\ inv[i].tool = "search_locations" /\ Len(EntriesOf(i)) >= 1) =>
            LocationBlocks(i)

\* Three locations, the three of them different, have been listed.
C4_Witness ==
    /\ Listed(1) /\ inv[1].tool = "search_locations" /\ Len(EntriesOf(1)) = MaxLocations
    /\ Cardinality({EntriesOf(1)[k] : k \in 1..Len(EntriesOf(1))}) = 3
    /\ inv[1].result.kind = "return"

Min(a, b) == IF a < b THEN a ELSE b

\* The text returned holds min(M, 10) blocks for M entries, block k being
\* that of entry k.
RestaurantBlocks(i) ==
    /\ inv[i].result.kind = "return"
    /\ LET pieces == BlocksOf(i)
           blocks == SelectSeq(pieces, LAMBDA b : StartsWith(b, "Name: "))
           shown == Min(Len(EntriesOf(i)), 10)
       IN  /\ Len(blocks) = shown
           /\ Len(EntriesOf(i)) >= 1 => Len(pieces) = shown
           /\ \A k \in 1..shown :
                  StartsWith(blocks[k], NameLine(inv[i].tool, EntriesOf(i)[k]) \o "Average Rating: ")

\* C5 as stated: get_restaurants on any gateway result whose nested list has M
\* entries returns min(M, 10) blocks, those of the first entries in order.
C5_Original ==
    \A i \in Invocations :
        (HasList(i) /\ inv[i].tool = "get_restaurants") => RestaurantBlocks(i)

\* C5 (amended): get_restaurants on a gateway result without an `error` key
\* whose nested list has M entries returns min(M, 10) blocks, those of the
\* first entries in order.
C5_RestaurantLimit ==
    \A i \in Invocations :
        (Listed(i) /\ inv[i].tool = "get_restaurants") => RestaurantBlocks(i)

\* Twelve restaurants, the eleventh unlike the others, gave ten blocks.
C5_Witness ==
    /\ Listed(1) /\ inv[1].tool = "get_restaurants" /\ Len(EntriesOf(1)) = 12
    /\ EntriesOf(1)[10] # EntriesOf(1)[11]
    /\ Len(BlocksOf(1)) = 10

NoResults(tool) ==
    IF tool = "search_locations" THEN "No locations found matching your query."
    ELSE "No Restaurants found for this location and dates."

SaysNoResults(i) ==
    /\ inv[i].result.kind = "return"
    /\ inv[i].result.text = NoResults(inv[i].tool)
    /\ inv[i].result.text # ""
    /\ inv[i].result.text # UnexpectedFormat

\* C6 as stated: on any value of the expected shape whose list is empty, the
\* tool returns exactly its no-results sentence.
C6_Original ==
    \A i \in Invocations : (HasList(i) /\ Len(EntriesOf(i)) = 0) => SaysNoResults(i)

\* C6 (amended): on a value of the expected shape without an `error` key
\* whose list is empty, the tool returns exactly its no-results sentence.
C6_NoResults ==
    \A i \in Invocations : (Listed(i) /\ Len(EntriesOf(i)) = 0) => SaysNoResults(i)

\* get_restaurants has met an empty nested list.
C6_Witness ==
    /\ Listed(1) /\ inv[1].tool = "get_restaurants" /\ Len(EntriesOf(1)) = 0
    /\ inv[1].pc = "returned"

\* The labelled lines of a block, each with the keys it renders.
LineSpecs(tool) ==
    IF tool = "search_locations"
    THEN << [label |-> "Name: ", keys |-> <<"localizedName">>],
            [label |-> "Location Id: ", keys |-> <<"locationId">>],
            [label |-> "Coordinates: ", keys |-> <<"latitude", "longitude">>],
            [label |-> "PlaceType: ", keys |-> <<"placeType">>] >>
    ELSE << [label |-> "Name: ", keys |-> <<"name">>],
            [label |-> "Average Rating: ", keys |-> <<"averageRating">>],
            [label |-> "User Review Count: ", keys |-> <<"userReviewCount">>],
            [label |-> "Menu Url: ", keys |-> <<"menuUrl">>],
            [label |-> "City Name GeoName: ", keys |-> <<"parentGeoName">>],
            [label |-> "Status: ", keys |-> <<"currentOpenStatusCategory">>],
            [label |-> "Premium: ", keys |-> <<"isPremium">>] >>

Placeholder(key) == IF key \in {"latitude", "longitude"} THEN "N/A" ELSE "Unknown"

\* The line carries its label and the placeholder of each key the entry lacks.
LineRenders(line, spec, entry) ==
    /\ StartsWith(line, spec.label)
    /\ spec.keys[1] \notin DOMAIN entry.v =>
           StartsWith(line, spec.label \o Placeholder(spec.keys[1]))
    /\ (Len(spec.keys) = 1 /\ spec.keys[1] \notin DOMAIN entry.v) =>
           line = spec.label \o Placeholder(spec.keys[1])
    /\ (Len(spec.keys) = 2 /\ spec.keys[2] \notin DOMAIN entry.v) =>
           EndsWith(line, ", " \o Placeholder(spec.keys[2]))

\* C7: whatever fields an entry lacks, its block is there with every labelled
\* line, each missing field rendered as its placeholder ("N/A" for latitude
\* and longitude, "Unknown" otherwise); the tool does not fail.
C7_Placeholders ==
    \A i \in Invocations :
        (Listed(i) /\ Len(EntriesOf(i)) >= 1) =>
            /\ inv[i].result.kind = "return"
            /\ LET blocks == BlocksOf(i)
                   specs == LineSpecs(inv[i].tool)
                   shown == IF inv[i].tool = "get_restaurants"
                            THEN Min(Len(EntriesOf(i)), 10) ELSE Len(EntriesOf(i))
               IN  /\ Len(blocks) = shown
                   /\ \A k \in 1..shown :
                          LET lines == SplitOn(blocks[k], "\n")
                          IN  /\ Len(lines) >= Len(specs)
                              /\ \A n \in 1..Len(specs) :
                                     LineRenders(lines[n], specs[n], EntriesOf(i)[k])

\* A location without longitude and a restaurant without any field have been
\* rendered.
C7_Witness ==
    /\ Listed(1) /\ Len(EntriesOf(1)) = 1 /\ inv[1].pc = "returned"
    /\ \/ inv[1].tool = "search_locations"
          /\ DOMAIN EntriesOf(1)[1].v = LocationFields \ {"longitude"}
          /\ SplitOn(inv[1].result.text, "\n")[3] = "Coordinates: 48, N/A"
       \/ inv[1].tool = "get_restaurants"
          /\ DOMAIN EntriesOf(1)[1].v = {}
          /\ StartsWith(inv[1].result.text, "Name: Unknown\nAverage Rating: Unknown\n")

====
